---- MODULE Spec2Model ----
(***************************************************************************)
(* Frame spooling and acquisition in hipercam: the spool classes and the   *)
(* source resolver of spooler.py, and the acquisition loops of the averun  *)
(* and rtplot scripts that consume a spool inside a 'with' block, and the  *)
(* median combination averun makes of the frames it has stored.            *)
(*                                                                         *)
(* Times (twait, tmax, total_time) are whole numbers of one time unit.     *)
(* Pixel values are whole numbers of half a count, the frames' own values  *)
(* being even, so that the mean of two of them is exact.  A CCD has one    *)
(* window of one pixel.                                                    *)
(* A text line is a sequence of one-character strings.  A value a read     *)
(* hands to the loop is a record: kind "None" for Python's None, kind      *)
(* "Frame" for an MCCD, identified by the file it was read from or by its  *)
(* frame number in the run, with its CCDs by label.                        *)
(***************************************************************************)
EXTENDS Integers, Sequences, FiniteSets, TLC

\* ------------------------------------------------------------------ bounds
MaxFirst  == 2      \* largest 'first' tried
MaxSpan   == 2      \* largest last - first tried
MaxTwait  == 2      \* largest twait tried
MaxTmax   == 3      \* largest tmax tried
MaxLines  == 3      \* longest file list tried
MaxFrames == 3      \* most frames a raw run hands out
NCap      == 2      \* rtplot's enumerate index n is tracked exactly below this

\* a name the code leaves unbound on the path taken (reading it is a NameError)
Unbound == -1

\* ------------------------------------------------------------- plain data
\* the CCD labels of an MCCD, in the order its mapping keeps them
CNamSeq == <<"1", "2">>

CNams == { CNamSeq[i] : i \in 1..Len(CNamSeq) }

\* a CCD: its is_data() flag and the pixel of its one window
OkCCD(v) == [ok |-> TRUE, data |-> v]

\* a CCD blanked by the instrument: is_data() is false
Blank == [ok |-> FALSE, data |-> 0]

\* the pixel values tried for each CCD
PixOf(cnam) == IF cnam = "1" THEN {2, 8, 12} ELSE {4, 10}

CCDsOf(cnam) == {Blank} \cup { OkCCD(v) : v \in PixOf(cnam) }

\* what a frame can hold: one CCD value for every label
Contents == { f \in [CNams -> UNION { CCDsOf(c) : c \in CNams }] :
                  \A c \in CNams : f[c] \in CCDsOf(c) }

\* a frame with every CCD exposed
Exposed == [c \in CNams |-> IF c = "1" THEN OkCCD(2) ELSE OkCCD(4)]

\* what the frames of a run hold while the acquisition is followed: all
\* CCDs exposed, or CCD '2' blanked.  Only averun looks at is_data(); the
\* runs the other callers read hold exposed frames.
RunContents(caller) ==
    IF caller = "averun"
    THEN { Exposed, [c \in CNams |-> IF c = "1" THEN OkCCD(8) ELSE Blank] }
    ELSE { Exposed }

NoCCDs == [c \in CNams |-> Blank]

None == [kind |-> "None", file |-> <<>>, nframe |-> 0, ccd |-> NoCCDs]

FileFrame(fname) == [kind |-> "Frame", file |-> fname, nframe |-> 0, ccd |-> NoCCDs]

RunFrame(k, c) == [kind |-> "Frame", file |-> <<>>, nframe |-> k, ccd |-> c]

\* bias: None for 'none', else an MCCD of the frames' layout, read from a file
NoBias == [given |-> FALSE, data |-> [c \in CNams |-> 0]]

BiasFrame(b) == [given |-> TRUE, data |-> b]

Biases == { BiasFrame([c \in CNams |-> IF c = "1" THEN 2 ELSE 6]) }

\* what is at the output path: nothing, a file from before, or what
\* MCCD.write put there
NoFile == [kind |-> "absent", file |-> <<>>, nframe |-> 0, ccd |-> NoCCDs]

OldFile == [kind |-> "old", file |-> <<>>, nframe |-> 0, ccd |-> NoCCDs]

\* dict([(cnam,[]) for cnam in template])
NoLists == [c \in CNams |-> <<>>]

\* the lines a file list is made of: a comment, two file names, and a name
\* with '#' after its first character
LineSet == { <<"#", "c">>, <<"a">>, <<"b", "#">> }

RECURSIVE SeqsUpTo(_, _)
SeqsUpTo(S, n) ==
    IF n = 0 THEN { <<>> }
    ELSE LET shorter == SeqsUpTo(S, n - 1)
         IN  shorter \cup { Append(s, x) : s \in { t \in shorter : Len(t) = n - 1 }, x \in S }

FileLists == SeqsUpTo(LineSet, MaxLines)

\* str.startswith('#')
startswith(line, ch) == Len(line) >= 1 /\ line[1] = ch

\* rhcam(fname): the frame held by the file that 'fname' names
rhcam(fname) == FileFrame(fname)

SpoolKinds == {"UcamDiskSpool", "UcamServSpool", "HcamListSpool", "HcamDiskSpool"}

RdataKinds == {"UcamDiskSpool", "UcamServSpool", "HcamDiskSpool"}

NoSpool == [kind |-> "none", resource |-> "", first |-> 0, flt |-> FALSE, server |-> FALSE]

Raise(e) == [error |-> e, spool |-> NoSpool]

Return(s) == [error |-> "none", spool |-> s]

\* the spool objects the constructors build, by what they pass to their reader
UcamDiskSpool(run, fst, fl) ==
    [kind |-> "UcamDiskSpool", resource |-> run, first |-> fst, flt |-> fl, server |-> FALSE]

UcamServSpool(run, fst, fl) ==
    [kind |-> "UcamServSpool", resource |-> run, first |-> fst, flt |-> fl, server |-> TRUE]

HcamListSpool(lname) ==
    [kind |-> "HcamListSpool", resource |-> lname, first |-> 0, flt |-> FALSE, server |-> FALSE]

HcamDiskSpool(run, fst, fl) ==
    [kind |-> "HcamDiskSpool", resource |-> run, first |-> fst, flt |-> fl, server |-> FALSE]

\* data_source without its check of flist for ULTRA
data_source_NoUltraListCheck(ins, res, fl, srv, fst, ft) ==
    IF ins = "ULTRA" THEN
        IF srv THEN Return(UcamServSpool(res, fst, ft))
        ELSE Return(UcamDiskSpool(res, fst, ft))
    ELSE IF ins = "HIPER" THEN
        IF fl THEN Return(HcamListSpool(res))
        ELSE IF srv THEN Raise("NotImplementedError")
        ELSE Return(HcamDiskSpool(res, fst, ft))
    ELSE Raise("ValueError")

\* data_source without its check of server for HIPER
data_source_NoHiperServerCheck(ins, res, fl, srv, fst, ft) ==
    IF ins = "ULTRA" THEN
        IF fl THEN Raise("NotImplementedError")
        ELSE IF srv THEN Return(UcamServSpool(res, fst, ft))
        ELSE Return(UcamDiskSpool(res, fst, ft))
    ELSE IF ins = "HIPER" THEN
        IF fl THEN Return(HcamListSpool(res))
        ELSE Return(HcamDiskSpool(res, fst, ft))
    ELSE Raise("ValueError")

\* data_source looking at server before flist for HIPER
data_source_ServerFirst(ins, res, fl, srv, fst, ft) ==
    IF ins = "ULTRA" THEN
        IF fl THEN Raise("NotImplementedError")
        ELSE IF srv THEN Return(UcamServSpool(res, fst, ft))
        ELSE Return(UcamDiskSpool(res, fst, ft))
    ELSE IF ins = "HIPER" THEN
        IF srv THEN Raise("NotImplementedError")
        ELSE IF fl THEN Return(HcamListSpool(res))
        ELSE Return(HcamDiskSpool(res, fst, ft))
    ELSE Raise("ValueError")

\* data_source with the two ULTRA spools the wrong way round
data_source_UltraSwapped(ins, res, fl, srv, fst, ft) ==
    IF ins = "ULTRA" THEN
        IF fl THEN Raise("NotImplementedError")
        ELSE IF srv THEN Return(UcamDiskSpool(res, fst, ft))
        ELSE Return(UcamServSpool(res, fst, ft))
    ELSE IF ins = "HIPER" THEN
        IF fl THEN Return(HcamListSpool(res))
        ELSE IF srv THEN Raise("NotImplementedError")
        ELSE Return(HcamDiskSpool(res, fst, ft))
    ELSE Raise("ValueError")

\* data_source(inst, resource, flist, server, first, flt): the spool it
\* returns or the error it raises
data_source(ins, res, fl, srv, fst, ft) ==
    IF ins = "ULTRA" THEN
        IF fl THEN Raise("NotImplementedError")
        ELSE IF srv THEN Return(UcamServSpool(res, fst, ft))
        ELSE Return(UcamDiskSpool(res, fst, ft))
    ELSE IF ins = "HIPER" THEN
        IF fl THEN Return(HcamListSpool(res))
        ELSE IF srv THEN Raise("NotImplementedError")
        ELSE Return(HcamDiskSpool(res, fst, ft))
    ELSE Raise("ValueError")

\* no call of data_source made yet
NotResolved == [error |-> "NotCalled", spool |-> NoSpool]

\* a call of data_source with the positional arguments args: every one of
\* the six parameters is required
data_source_call(args) ==
    IF Len(args) # 6 THEN Raise("TypeError")
    ELSE data_source(args[1], args[2], args[3], args[4], args[5], args[6])

\* the data-source codes of averun, as its documentation gives them:
\* <<instrument, flist, server>>
SourceArgs(src) ==
    CASE src = "hs" -> <<"HIPER", FALSE, TRUE>>
      [] src = "hl" -> <<"HIPER", FALSE, FALSE>>
      [] src = "us" -> <<"ULTRA", FALSE, TRUE>>
      [] src = "ul" -> <<"ULTRA", FALSE, FALSE>>
      [] src = "hf" -> <<"HIPER", TRUE, FALSE>>

\* hang_about(obj, twait, tmax, total_time): <<give_up, try_again, total_time>>
hang_about(obj, tw, tm, tt) ==
    IF obj = None THEN
        IF tt + tw > tm THEN <<TRUE, FALSE, tt>>
        ELSE <<FALSE, TRUE, tt + tw>>
    ELSE <<FALSE, FALSE, 0>>

Min(S) == CHOOSE x \in S : \A y \in S : x <= y

\* ------------------------------------------------------------------ state
VARIABLES
    script,      \* who runs: "averun", "rtplot", or "direct" (a bare
                 \* 'with data_source(...) as dsource: for frame in dsource')
    source,      \* the script's 'source' parameter ("" for a direct call)
    inst, resource, flist, server, first, flt,   \* what the resolver is given
    last, twait, tmax,    \* Unbound where the script does not prompt for them
    profit,      \* rtplot: profile fits wanted
    bias,        \* averun: the bias frame, NoBias for 'none'
    clobber,     \* averun: overwrite a file at the output path
    exists,      \* the file or run that 'resource' names can be opened
    rinst,       \* the instrument the header of an ULTRA run names
    lines,       \* the text of the file list, line by line
    pc,          \* where the script is
    error,       \* the exception that ended the script, "none" otherwise
    spool,       \* the spool object data_source returned
    held,        \* the spool's file handle or connection is open
    opens,       \* how many times a handle or connection was opened
    exits,       \* how many times the spool's __exit__ ran
    pos,         \* lines of the file list consumed so far
    cur,         \* number of the next frame of the run
    stalled,     \* the server will produce no further frame
    frame,       \* the loop variable ('mccd' in averun, 'frame' in rtplot)
    leave,       \* how the loop was left
    total_time,  \* time waited since the last frame
    waits,       \* sleeps taken since the last frame (WaitCap: that many or more)
    mccds,       \* averun: the frames stored
    nframe,      \* averun: number of the frame being read
    n,           \* rtplot: enumerate index (NCap: that many or more)
    nsel,        \* rtplot: cursor selection sessions held
    produced,    \* the frames the reader has handed out, as it handed them out
    template,    \* averun: the frame that becomes the output
    ccds,        \* averun: per CCD label, the stored frames (by their place
                 \* in mccds) whose CCD of that label goes into the median
    outfile,     \* what is at averun's output path
    message,     \* the words of the HipercamError raised, <<>> otherwise
    pars,        \* what a call of get_ccd_pars gave
    dsrc         \* what a call of data_source with arguments as written gave

inputs == <<script, source, inst, resource, flist, server, first, flt,
            last, twait, tmax, profit, bias, clobber, exists, rinst, lines>>

\* what only the calls made outside the scripts' loops change
calls == <<pars, dsrc>>

\* what only the steps after averun's 'with' block change
post == <<template, ccds, outfile, message>>

vars == <<script, source, inst, resource, flist, server, first, flt,
          last, twait, tmax, profit, bias, clobber, exists, rinst, lines,
          pc, error, spool, held, opens, exits, pos, cur, stalled, frame,
          leave, total_time, waits, mccds, nframe, n, nsel,
          produced, template, ccds, outfile, message, pars, dsrc>>

\* ------------------------------------------------------- the CCD geometry
\* the full size of a HiPERCAM CCD (hipercam.core)
HCM_NXTOT == 2048

HCM_NYTOT == 1024

\* what a call of get_ccd_pars gives: an exception, None, an ordered mapping
\* (its items in order) or the geometry read from a named file
Pars(e, k, its, f) == [error |-> e, kind |-> k, items |-> its, file |-> f]

\* no call of get_ccd_pars made yet
NotCalled == Pars("none", "NotCalled", <<>>, <<>>)

ParsRaise(e) == Pars(e, "raise", <<>>, <<>>)

ParsNone == Pars("none", "None", <<>>, <<>>)

\* OrderedDict(iterable): each element of the iterable must unpack into a
\* key and a value, else the constructor raises
OrderedDict(elements) ==
    IF \E i \in 1..Len(elements) : Len(elements[i]) # 2
    THEN ParsRaise("ValueError")
    ELSE Pars("none", "OrderedDict", elements, <<>>)

\* ccd.get_ccd_info(fname): the CCD geometry stored in the file of that name
get_ccd_info(fname) == Pars("none", "info", <<>>, fname)

\* ucam.Rhead(resource): the header of the run, which names its instrument
Rhead(res) == IF exists THEN [error |-> "none", instrument |-> rinst]
              ELSE [error |-> "FileNotFoundError", instrument |-> ""]

RheadInstruments == {"ULTRACAM", "ULTRASPEC", "OTHERCAM"}

\* the lines of the list that hold a file name, by their place
NameLines == { j \in 1..Len(lines) : ~startswith(lines[j], "#") }

\* the list branch with the loop running on to the last name
fname_Last == lines[CHOOSE j \in NameLines : \A k \in NameLines : k <= j]

\* the list branch: the loop over the lines breaks at the first one that
\* does not start with '#', and leaves it in fname
fname == lines[Min(NameLines)]

\* an instrument that is neither 'ULTRA' nor 'HIPER', were it rejected
no_branch_Reject == ParsRaise("ValueError")

\* an instrument that is neither 'ULTRA' nor 'HIPER' matches no branch of
\* get_ccd_pars, which has no final 'else': the function ends and gives None
no_branch == ParsNone

\* get_ccd_pars(inst, resource, flist).  The ULTRASPEC branch hands
\* OrderedDict the pair ('1', (1056, 1072)) itself, so that its elements are
\* the string '1' (one character) and the tuple (1056, 1072).
get_ccd_pars(ins, res, fl) ==
    IF ins = "ULTRA" THEN
        IF fl THEN ParsRaise("NotImplementedError")
        ELSE IF Rhead(res).error # "none" THEN ParsRaise(Rhead(res).error)
        ELSE IF Rhead(res).instrument = "ULTRACAM" THEN
            OrderedDict(<< <<"r", <<1080, 1032>> >>, <<"g", <<1080, 1032>> >>,
                           <<"b", <<1080, 1032>> >> >>)
        ELSE IF Rhead(res).instrument = "ULTRASPEC" THEN
            OrderedDict(<< <<"1">>, <<1056, 1072>> >>)
        ELSE ParsRaise("ValueError")
    ELSE IF ins = "HIPER" THEN
        IF fl THEN
            IF ~exists THEN ParsRaise("FileNotFoundError")
            ELSE IF NameLines = {} THEN ParsRaise("ValueError")
            ELSE get_ccd_info(fname)
        ELSE
            OrderedDict(<< <<"1", <<HCM_NXTOT, HCM_NYTOT>> >>,
                           <<"2", <<HCM_NXTOT, HCM_NYTOT>> >>,
                           <<"3", <<HCM_NXTOT, HCM_NYTOT>> >>,
                           <<"4", <<HCM_NXTOT, HCM_NYTOT>> >>,
                           <<"5", <<HCM_NXTOT, HCM_NYTOT>> >> >>)
    ELSE no_branch

WaitCap == MaxTmax + 2

Bump(k, cap) == IF k < cap THEN k + 1 ELSE k

\* averun: source.endswith('s') or source.endswith('l')
server_or_local == source \in {"hs", "hl", "us", "ul"}

\* ------------------------------------------------------------ the inputs
\* averun's parameters as its prompts deliver them
AverunInputs ==
    /\ script = "averun"
    /\ source \in {"hs", "hl", "us", "ul", "hf"}
    /\ inst = SourceArgs(source)[1]
    /\ flist = SourceArgs(source)[2]
    /\ server = SourceArgs(source)[3]
    /\ resource = IF server_or_local THEN "run005" ELSE "files.lis"
    /\ flt = FALSE
    /\ profit = FALSE
    /\ bias \in {NoBias} \cup Biases
    /\ clobber \in BOOLEAN
    /\ IF server_or_local
       THEN /\ first \in 1..MaxFirst
            /\ last \in first..(first + MaxSpan)
            /\ twait \in 0..MaxTwait
            /\ tmax \in 0..MaxTmax
       ELSE /\ first = 1
            /\ last = Unbound
            /\ twait = Unbound
            /\ tmax = Unbound

\* rtplot's parameters as its prompts deliver them
RtplotInputs ==
    /\ script = "rtplot"
    /\ source \in {"s", "l", "f"}
    /\ inst \in (IF source = "f" THEN {"HIPER"} ELSE {"HIPER", "ULTRA"})
    /\ flist = (source = "f")
    /\ server = (source = "s")
    /\ resource = IF source = "f" THEN "files.lis" ELSE "run005"
    /\ first \in (IF source = "f" THEN {1} ELSE 1..MaxFirst)
    /\ flt \in BOOLEAN
    /\ last = Unbound
    /\ IF source = "s"
       THEN twait \in 0..MaxTwait /\ tmax \in 0..MaxTmax
       ELSE twait = Unbound /\ tmax = Unbound
    /\ profit \in BOOLEAN
    /\ bias = NoBias
    /\ clobber = FALSE

\* a direct call of data_source with any arguments
DirectInputs ==
    /\ script = "direct"
    /\ source = ""
    /\ inst \in {"ULTRA", "HIPER", "OTHER"}
    /\ resource \in {"run005", "files.lis"}
    /\ flist \in BOOLEAN
    /\ server \in BOOLEAN
    /\ first \in 1..MaxFirst
    /\ flt \in BOOLEAN
    /\ last = Unbound
    /\ twait = Unbound
    /\ tmax = Unbound
    /\ profit = FALSE
    /\ bias = NoBias
    /\ clobber = FALSE

Init ==
    /\ DirectInputs \/ RtplotInputs \/ AverunInputs
    /\ exists \in BOOLEAN
    /\ rinst = "ULTRACAM"
    /\ lines \in (IF flist THEN FileLists ELSE { <<>> })
    /\ pars = NotCalled
    /\ dsrc = NotResolved
    /\ pc = "start"
    /\ error = "none"
    /\ spool = NoSpool
    /\ held = FALSE
    /\ opens = 0
    /\ exits = 0
    /\ pos = 0
    /\ cur = first
    /\ stalled = FALSE
    /\ frame = None
    /\ leave = "none"
    /\ total_time = 0
    /\ waits = 0
    /\ mccds = <<>>
    /\ nframe = first
    /\ n = 0
    /\ nsel = 0
    /\ produced = <<>>
    /\ template = None
    /\ ccds = NoLists
    /\ outfile \in (IF script = "averun" THEN {NoFile, OldFile} ELSE {NoFile})
    /\ message = <<>>

\* ---------------------------------------------------- resolving the source
\* the scripts' call of the resolver, hcam.data_source(...).  rtplot passes
\* (instrument, run, flist, server, first) and leaves flt out, so flt is any
\* value; averun passes (source, run, first), and its source code stands for
\* the instrument, flist and server that SourceArgs gives.
Call == data_source(inst, resource, flist, server, first, flt)

\* data_source raises: nothing is constructed, the 'with' block is not entered
ResolveReject ==
    /\ pc = "start"
    /\ Call.error # "none"
    /\ pc' = "failed"
    /\ error' = Call.error
    /\ UNCHANGED <<inputs, calls, produced, post, spool, held, opens, exits, pos, cur, stalled, frame,
                   leave, total_time, waits, mccds, nframe, n, nsel>>

\* HcamListSpool.__init__ putting the open() off to the first read
HcamListSpool_init_Lazy(s) ==
    IF exists
    THEN /\ spool' = s
         /\ held' = FALSE
         /\ opens' = opens
         /\ pc' = "constructed"
         /\ error' = error
    ELSE /\ pc' = "failed"
         /\ error' = "FileNotFoundError"
         /\ UNCHANGED <<spool, held, opens>>

\* HcamListSpool.__init__: self._iter = open(lname)
HcamListSpool_init(s) ==
    IF exists
    THEN /\ spool' = s
         /\ held' = TRUE
         /\ opens' = opens + 1
         /\ pc' = "constructed"
         /\ error' = error
    ELSE /\ pc' = "failed"
         /\ error' = "FileNotFoundError"
         /\ UNCHANGED <<spool, held, opens>>

\* the reader of a raw run, ucam.Rdata(run, first, flt, server) or
\* hcam.Rdata(...): whether it opens the run when built or at the first read
\* is its own business
Rdata_init(s) ==
    IF exists
    THEN /\ spool' = s
         /\ held' \in BOOLEAN
         /\ opens' = IF held' THEN opens + 1 ELSE opens
         /\ pc' = "constructed"
         /\ error' = error
    ELSE /\ pc' = "failed"
         /\ error' = "ResourceError"
         /\ UNCHANGED <<spool, held, opens>>

ConstructList ==
    /\ pc = "start"
    /\ Call.error = "none"
    /\ Call.spool.kind = "HcamListSpool"
    /\ HcamListSpool_init(Call.spool)
    /\ UNCHANGED <<inputs, calls, produced, post, exits, pos, cur, stalled, frame, leave, total_time,
                   waits, mccds, nframe, n, nsel>>

ConstructRdata ==
    /\ pc = "start"
    /\ Call.error = "none"
    /\ Call.spool.kind \in RdataKinds
    /\ Rdata_init(Call.spool)
    /\ UNCHANGED <<inputs, calls, produced, post, exits, pos, cur, stalled, frame, leave, total_time,
                   waits, mccds, nframe, n, nsel>>

\* SpoolerBase.__enter__: return self
SpoolerBase_enter ==
    /\ pc = "constructed"
    /\ pc' = "loop"
    /\ UNCHANGED <<inputs, calls, produced, post, error, spool, held, opens, exits, pos, cur, stalled,
                   frame, leave, total_time, waits, mccds, nframe, n, nsel>>

\* --------------------------------------------------------- producing next
\* the lines after the read position that do not start with '#'
DataLinesAhead == { j \in (pos + 1)..Len(lines) : ~startswith(lines[j], "#") }

\* HcamListSpool.__next__: run down the lines to the first that is not a
\* comment; the method ends there without a return statement
HcamListSpool_next ==
    /\ pc = "loop"
    /\ spool.kind = "HcamListSpool"
    /\ IF DataLinesAhead # {}
       THEN /\ pos' = Min(DataLinesAhead)
            /\ frame' = None
            /\ pc' = "got"
            /\ leave' = leave
       ELSE /\ pos' = Len(lines)
            /\ pc' = "leaving"
            /\ leave' = "exhausted"
            /\ frame' = frame
    /\ UNCHANGED <<inputs, calls, produced, post, error, spool, held, opens, exits, cur, stalled,
                   total_time, waits, mccds, nframe, n, nsel>>

\* a read of the run opens it if the reader had not done so yet
RdataTouch ==
    /\ held' = TRUE
    /\ opens' = IF held THEN opens ELSE opens + 1

\* Rdata.__next__ hands out the next frame of the run
RdataFrame ==
    /\ pc = "loop"
    /\ spool.kind \in RdataKinds
    /\ ~stalled
    /\ cur - spool.first < MaxFrames
    /\ RdataTouch
    /\ \E c \in RunContents(script) : frame' = RunFrame(cur, c)
    /\ produced' = Append(produced, frame')
    /\ cur' = cur + 1
    /\ pc' = "got"
    /\ UNCHANGED <<inputs, calls, post, error, spool, exits, pos, stalled, leave,
                   total_time, waits, mccds, nframe, n, nsel>>

\* Rdata.__next__ of a server reader: the frame is not there yet
RdataNone ==
    /\ pc = "loop"
    /\ spool.kind \in RdataKinds
    /\ spool.server
    /\ RdataTouch
    /\ frame' = None
    /\ pc' = "got"
    /\ UNCHANGED <<inputs, calls, produced, post, error, spool, exits, pos, cur, stalled, leave,
                   total_time, waits, mccds, nframe, n, nsel>>

\* Rdata.__next__ of a disk reader: the run has no more frames
RdataStop ==
    /\ pc = "loop"
    /\ spool.kind \in RdataKinds
    /\ ~spool.server
    /\ RdataTouch
    /\ pc' = "leaving"
    /\ leave' = "exhausted"
    /\ UNCHANGED <<inputs, calls, produced, post, error, spool, exits, pos, cur, stalled, frame,
                   total_time, waits, mccds, nframe, n, nsel>>

\* Rdata.__next__ fails: the exception leaves the loop and the 'with' block
RdataFail ==
    /\ pc = "loop"
    /\ spool.kind \in RdataKinds
    /\ RdataTouch
    /\ pc' = "leaving"
    /\ leave' = "exception"
    /\ error' = "ReadError"
    /\ UNCHANGED <<inputs, calls, produced, post, spool, exits, pos, cur, stalled, frame,
                   total_time, waits, mccds, nframe, n, nsel>>

\* the instrument stops: from here on the server has nothing new
Stall ==
    /\ pc \in {"loop", "got"}
    /\ spool.kind \in RdataKinds
    /\ spool.server
    /\ ~stalled
    /\ stalled' = TRUE
    /\ UNCHANGED <<inputs, calls, produced, post, pc, error, spool, held, opens, exits, pos, cur,
                   frame, leave, total_time, waits, mccds, nframe, n, nsel>>

\* ------------------------------------------------------ rtplot's loop body
\* the give-up test with <= in place of <
RtGiveUp_Early ==
    /\ pc = "got"
    /\ script = "rtplot"
    /\ server /\ frame = None
    /\ tmax <= total_time + twait
    /\ pc' = "leaving"
    /\ leave' = "giveup"
    /\ UNCHANGED <<inputs, calls, produced, post, error, spool, held, opens, exits, pos, cur, stalled,
                   frame, total_time, waits, mccds, nframe, n, nsel>>

\* 'if server and frame is None' with tmax < total_time + twait: break
RtGiveUp ==
    /\ pc = "got"
    /\ script = "rtplot"
    /\ server /\ frame = None
    /\ tmax < total_time + twait
    /\ pc' = "leaving"
    /\ leave' = "giveup"
    /\ UNCHANGED <<inputs, calls, produced, post, error, spool, held, opens, exits, pos, cur, stalled,
                   frame, total_time, waits, mccds, nframe, n, nsel>>

\* the wait without 'total_time += twait'
RtWait_NoCount ==
    /\ pc = "got"
    /\ script = "rtplot"
    /\ server /\ frame = None
    /\ ~(tmax < total_time + twait)
    /\ total_time' = total_time
    /\ waits' = Bump(waits, WaitCap)
    /\ n' = Bump(n, NCap)
    /\ pc' = "loop"
    /\ UNCHANGED <<inputs, calls, produced, post, error, spool, held, opens, exits, pos, cur, stalled,
                   frame, leave, mccds, nframe, nsel>>

\* 'if server and frame is None' otherwise: sleep, count the time, continue
RtWait ==
    /\ pc = "got"
    /\ script = "rtplot"
    /\ server /\ frame = None
    /\ ~(tmax < total_time + twait)
    /\ total_time' = total_time + twait
    /\ waits' = Bump(waits, WaitCap)
    /\ n' = Bump(n, NCap)
    /\ pc' = "loop"
    /\ UNCHANGED <<inputs, calls, produced, post, error, spool, held, opens, exits, pos, cur, stalled,
                   frame, leave, mccds, nframe, nsel>>

\* None from a source that is no server: the progress line or the first
\* frame[cnam] fails on it
RtNoneFault ==
    /\ pc = "got"
    /\ script = "rtplot"
    /\ ~server /\ frame = None
    /\ pc' = "leaving"
    /\ leave' = "exception"
    /\ error' = IF flist THEN "TypeError" ELSE "AttributeError"
    /\ UNCHANGED <<inputs, calls, produced, post, spool, held, opens, exits, pos, cur, stalled, frame,
                   total_time, waits, mccds, nframe, n, nsel>>

\* the frame branch without 'total_time = 0'
RtPlot_NoReset ==
    /\ pc = "got"
    /\ script = "rtplot"
    /\ frame # None
    /\ total_time' = total_time
    /\ waits' = 0
    /\ nsel' = IF n = 0 /\ profit THEN nsel + 1 ELSE nsel
    /\ n' = Bump(n, NCap)
    /\ pc' = "loop"
    /\ UNCHANGED <<inputs, calls, produced, post, error, spool, held, opens, exits, pos, cur, stalled,
                   frame, leave, mccds, nframe>>

\* a frame: reset the time waited (server), plot the CCDs, select the fit
\* targets after the first plot, fit them; on to the next frame
RtPlot ==
    /\ pc = "got"
    /\ script = "rtplot"
    /\ frame # None
    /\ total_time' = IF server THEN 0 ELSE total_time
    /\ waits' = 0
    /\ nsel' = IF n = 0 /\ profit THEN nsel + 1 ELSE nsel
    /\ n' = Bump(n, NCap)
    /\ pc' = "loop"
    /\ UNCHANGED <<inputs, calls, produced, post, error, spool, held, opens, exits, pos, cur, stalled,
                   frame, leave, mccds, nframe>>

\* a frame, and the plotting or fitting code raises
RtPlotRaise ==
    /\ pc = "got"
    /\ script = "rtplot"
    /\ frame # None
    /\ total_time' = IF server THEN 0 ELSE total_time
    /\ waits' = 0
    /\ pc' = "leaving"
    /\ leave' = "exception"
    /\ error' = "Exception"
    /\ UNCHANGED <<inputs, calls, produced, post, spool, held, opens, exits, pos, cur, stalled, frame,
                   mccds, nframe, n, nsel>>

\* ------------------------------------------------------ averun's loop body
\* what hang_about returns for the value just read
Hang == hang_about(frame, twait, tmax, total_time)

\* server_or_local and give_up: break
AvGiveUp ==
    /\ pc = "got"
    /\ script = "averun"
    /\ server_or_local
    /\ Hang[1]
    /\ total_time' = Hang[3]
    /\ pc' = "leaving"
    /\ leave' = "giveup"
    /\ UNCHANGED <<inputs, calls, produced, post, error, spool, held, opens, exits, pos, cur, stalled,
                   frame, waits, mccds, nframe, n, nsel>>

\* a 'try again' that counts the sentinel as a frame read
AvTryAgain_Counts ==
    /\ pc = "got"
    /\ script = "averun"
    /\ server_or_local
    /\ ~Hang[1] /\ Hang[2]
    /\ total_time' = Hang[3]
    /\ waits' = Bump(waits, WaitCap)
    /\ nframe' = nframe + 1
    /\ pc' = "loop"
    /\ UNCHANGED <<inputs, calls, produced, post, error, spool, held, opens, exits, pos, cur, stalled,
                   frame, leave, mccds, n, nsel>>

\* server_or_local and try_again: continue
AvTryAgain ==
    /\ pc = "got"
    /\ script = "averun"
    /\ server_or_local
    /\ ~Hang[1] /\ Hang[2]
    /\ total_time' = Hang[3]
    /\ waits' = Bump(waits, WaitCap)
    /\ pc' = "loop"
    /\ UNCHANGED <<inputs, calls, produced, post, error, spool, held, opens, exits, pos, cur, stalled,
                   frame, leave, mccds, nframe, n, nsel>>

\* the append with 'if nframe > last: break'
AvAppend_NoStop ==
    /\ pc = "got"
    /\ script = "averun"
    /\ server_or_local
    /\ ~Hang[1] /\ ~Hang[2]
    /\ total_time' = Hang[3]
    /\ waits' = 0
    /\ mccds' = Append(mccds, frame)
    /\ IF nframe > last
       THEN pc' = "leaving" /\ leave' = "last" /\ nframe' = nframe
       ELSE pc' = "loop" /\ leave' = leave /\ nframe' = nframe + 1
    /\ UNCHANGED <<inputs, calls, produced, post, error, spool, held, opens, exits, pos, cur, stalled,
                   frame, n, nsel>>

\* the append whose break at 'last' jumps past the end of the 'with' block
AvAppend_NoRelease ==
    /\ pc = "got"
    /\ script = "averun"
    /\ server_or_local
    /\ ~Hang[1] /\ ~Hang[2]
    /\ total_time' = Hang[3]
    /\ waits' = 0
    /\ mccds' = Append(mccds, frame)
    /\ IF nframe >= last
       THEN pc' = "after" /\ leave' = "last" /\ nframe' = nframe
       ELSE pc' = "loop" /\ leave' = leave /\ nframe' = nframe + 1
    /\ UNCHANGED <<inputs, calls, produced, post, error, spool, held, opens, exits, pos, cur, stalled,
                   frame, n, nsel>>

\* mccds.append(mccd), then 'if nframe >= last: break', else nframe += 1
AvAppend ==
    /\ pc = "got"
    /\ script = "averun"
    /\ server_or_local
    /\ ~Hang[1] /\ ~Hang[2]
    /\ total_time' = Hang[3]
    /\ waits' = 0
    /\ mccds' = Append(mccds, frame)
    /\ IF nframe >= last
       THEN pc' = "leaving" /\ leave' = "last" /\ nframe' = nframe
       ELSE pc' = "loop" /\ leave' = leave /\ nframe' = nframe + 1
    /\ UNCHANGED <<inputs, calls, produced, post, error, spool, held, opens, exits, pos, cur, stalled,
                   frame, n, nsel>>

\* a file list: no waiting game; mccds.append(mccd), and 'last' was never set
AvAppendList ==
    /\ pc = "got"
    /\ script = "averun"
    /\ ~server_or_local
    /\ mccds' = Append(mccds, frame)
    /\ pc' = "leaving"
    /\ leave' = "exception"
    /\ error' = "NameError"
    /\ UNCHANGED <<inputs, calls, produced, post, spool, held, opens, exits, pos, cur, stalled, frame,
                   total_time, waits, nframe, n, nsel>>

\* ---------------------------------------------------- a direct caller's body
DirectBody ==
    /\ pc = "got"
    /\ script = "direct"
    /\ pc' = "loop"
    /\ UNCHANGED <<inputs, calls, produced, post, error, spool, held, opens, exits, pos, cur, stalled,
                   frame, leave, total_time, waits, mccds, nframe, n, nsel>>

\* ------------------------------------------------- leaving the 'with' block
\* an __exit__ that returns True: the exception is swallowed
AfterExit_Swallow ==
    pc' = "after"

\* __exit__ returns None: an exception that left the block goes on up
AfterExit ==
    pc' = IF leave = "exception" THEN "failed" ELSE "after"

\* HcamListSpool.__exit__ without the close()
HcamListSpool_exit_NoClose ==
    /\ pc = "leaving"
    /\ spool.kind = "HcamListSpool"
    /\ held' = held
    /\ exits' = exits + 1
    /\ AfterExit
    /\ UNCHANGED <<inputs, calls, produced, post, error, spool, opens, pos, cur, stalled, frame, leave,
                   total_time, waits, mccds, nframe, n, nsel>>

\* HcamListSpool.__exit__: self._iter.close()
HcamListSpool_exit ==
    /\ pc = "leaving"
    /\ spool.kind = "HcamListSpool"
    /\ held' = FALSE
    /\ exits' = exits + 1
    /\ AfterExit
    /\ UNCHANGED <<inputs, calls, produced, post, error, spool, opens, pos, cur, stalled, frame, leave,
                   total_time, waits, mccds, nframe, n, nsel>>

\* the __exit__ of the three raw-run spools: self._iter.__exit__(args), the
\* reader lets go of the run
Rdata_exit ==
    /\ pc = "leaving"
    /\ spool.kind \in RdataKinds
    /\ held' = FALSE
    /\ exits' = exits + 1
    /\ AfterExit
    /\ UNCHANGED <<inputs, calls, produced, post, error, spool, opens, pos, cur, stalled, frame, leave,
                   total_time, waits, mccds, nframe, n, nsel>>

\* ------------------------------------------------------ after the 'with'
\* rtplot and the direct caller have nothing left to do
Finish ==
    /\ pc = "after"
    /\ script \in {"rtplot", "direct"}
    /\ pc' = "done"
    /\ UNCHANGED <<inputs, calls, produced, post, error, spool, held, opens, exits, pos, cur, stalled,
                   frame, leave, total_time, waits, mccds, nframe, n, nsel>>

\* averun going on to the combination without looking at len(mccds)
AvCheckFrames_NoTest ==
    /\ pc = "after"
    /\ script = "averun"
    /\ pc' = "frames_read"
    /\ UNCHANGED <<error, message>>
    /\ UNCHANGED <<inputs, calls, produced, template, ccds, outfile, spool, held, opens, exits, pos, cur, stalled, frame,
                   leave, total_time, waits, mccds, nframe, n, nsel>>

\* averun: 'if len(mccds) == 0: raise', else report the count and go on to
\* the combination
AvCheckFrames ==
    /\ pc = "after"
    /\ script = "averun"
    /\ IF Len(mccds) = 0
       THEN /\ pc' = "failed"
            /\ error' = "HipercamError"
            /\ message' = <<"no frames read">>
       ELSE /\ pc' = "frames_read"
            /\ UNCHANGED <<error, message>>
    /\ UNCHANGED <<inputs, calls, produced, template, ccds, outfile, spool, held, opens, exits, pos, cur, stalled, frame,
                   leave, total_time, waits, mccds, nframe, n, nsel>>

\* ------------------------------------------------------ averun's reduction
\* MCCD.copy(): a frame of its own with the same header and data
copy(m) == m

\* MCCD.crop(template) of a bias with the frames' layout: the same data
crop(b, m) == b

\* 'template = mccd.copy()', mccd being the loop variable of the acquisition
\* loop: the value read last, None after a give-up; then the crop of the bias
\* and the empty list for every CCD of the template
AvTemplate ==
    /\ pc = "frames_read"
    /\ IF frame = None
       THEN /\ pc' = "failed"
            /\ error' = "AttributeError"
            /\ UNCHANGED <<template, ccds>>
       ELSE /\ template' = copy(frame)
            /\ ccds' = NoLists
            /\ pc' = "collect"
            /\ error' = error
    /\ UNCHANGED <<inputs, calls, produced, outfile, message, spool, held, opens, exits,
                   pos, cur, stalled, frame, leave, total_time, waits, mccds,
                   nframe, n, nsel>>

\* the subtraction taking the bias of the first CCD for every CCD
Subtracted_SameCCD(m, c) ==
    [m.ccd[c] EXCEPT !.data = @ - crop(bias, template).data[CNamSeq[1]]]

\* 'ccd -= bias[cnam]' on the CCD of label c of a stored frame
Subtracted(m, c) ==
    [m.ccd[c] EXCEPT !.data = @ - crop(bias, template).data[c]]

\* the stored frames after the loop over mccds: every CCD with is_data() has
\* had the bias taken off in place, if there is a bias
Debiased ==
    [i \in 1..Len(mccds) |->
        [mccds[i] EXCEPT !.ccd =
            [c \in CNams |-> IF mccds[i].ccd[c].ok /\ bias.given
                             THEN Subtracted(mccds[i], c)
                             ELSE mccds[i].ccd[c]]]]

\* every stored frame, whatever is_data() says
Collected_All(c) == [i \in 1..Len(mccds) |-> i]

\* the stored frames all of whose CCDs have is_data()
Collected_PerFrame(c) ==
    SelectSeq([i \in 1..Len(mccds) |-> i],
              LAMBDA i : \A d \in CNams : mccds[i].ccd[d].ok)

\* the stored frames, in order, whose CCD of label c has is_data()
Collected(c) ==
    SelectSeq([i \in 1..Len(mccds) |-> i], LAMBDA i : mccds[i].ccd[c].ok)

\* 'for mccd in mccds: for cnam, ccd in mccd.items(): if ccd.is_data(): ...
\* ccds[cnam].append(ccd)'.  The lists hold the stored CCDs themselves, so
\* an entry of ccds is the place of its frame in mccds.
AvCollect ==
    /\ pc = "collect"
    /\ mccds' = Debiased
    /\ ccds' = [c \in CNams |-> ccds[c] \o Collected(c)]
    /\ frame' = mccds'[Len(mccds)]
    /\ pc' = "check"
    /\ UNCHANGED <<inputs, calls, produced, template, outfile, message, error, spool,
                   held, opens, exits, pos, cur, stalled, leave, total_time,
                   waits, nframe, n, nsel>>

\* the places in the template's order of the CCDs that collected nothing
Empties == { k \in 1..Len(CNamSeq) : Len(ccds[CNamSeq[k]]) = 0 }

\* 'for cnam in template: if len(ccds[cnam]) == 0: raise'
AvValidCheck ==
    /\ pc = "check"
    /\ IF Empties # {}
       THEN /\ pc' = "failed"
            /\ error' = "HipercamError"
            /\ message' = <<"found no valid frames for CCD", CNamSeq[Min(Empties)]>>
       ELSE /\ pc' = "median"
            /\ UNCHANGED <<error, message>>
    /\ UNCHANGED <<inputs, calls, produced, template, ccds, outfile, spool, held, opens,
                   exits, pos, cur, stalled, frame, leave, total_time, waits,
                   mccds, nframe, n, nsel>>

\* the values of a stack in ascending order
Sorted(s) == SortSeq(s, LAMBDA a, b : a < b)

\* the median taken as the lower of the two middle values of an even stack
median_LowerMiddle(s) ==
    LET t == Sorted(s)
    IN  t[(Len(t) + 1) \div 2]

\* np.median(arr3d, axis=0) at one pixel: the middle value of the stack, the
\* mean of the two middle values if their number is even
median(s) ==
    LET t == Sorted(s)
        nn == Len(t)
    IN  IF nn % 2 = 1 THEN t[(nn + 1) \div 2]
        ELSE (t[nn \div 2] + t[nn \div 2 + 1]) \div 2

\* arrs = [ccd[wnam].data for ccd in ccds[cnam]]
arrs(c) == [k \in 1..Len(ccds[c]) |-> mccds[ccds[c][k]].ccd[c].data]

\* 'for cnam in template: for wnam, wind in template[cnam].items():
\* wind.data = np.median(np.stack(arrs), axis=0)'
AvMedian ==
    /\ pc = "median"
    /\ template' = [template EXCEPT !.ccd =
                       [c \in CNams |-> [@[c] EXCEPT !.data = median(arrs(c))]]]
    /\ pc' = "write"
    /\ UNCHANGED <<inputs, calls, produced, ccds, outfile, message, error, spool, held,
                   opens, exits, pos, cur, stalled, frame, leave, total_time,
                   waits, mccds, nframe, n, nsel>>

\* MCCD.write(fname, overwrite): the error it raises and what is at fname
\* afterwards
write(m, path, overwrite) ==
    IF path # NoFile /\ ~overwrite
    THEN [error |-> "OSError", file |-> path]
    ELSE [error |-> "none", file |-> m]

\* template.write(outfile, clobber) with the clobber flag stuck at True
AvWrite_Always ==
    /\ pc = "write"
    /\ LET w == write(template, outfile, TRUE)
       IN  /\ outfile' = w.file
           /\ error' = IF w.error = "none" THEN error ELSE w.error
           /\ pc' = IF w.error = "none" THEN "done" ELSE "failed"
    /\ UNCHANGED <<inputs, calls, produced, template, ccds, message, spool, held, opens,
                   exits, pos, cur, stalled, frame, leave, total_time, waits,
                   mccds, nframe, n, nsel>>

\* template.write(outfile, clobber)
AvWrite ==
    /\ pc = "write"
    /\ LET w == write(template, outfile, clobber)
       IN  /\ outfile' = w.file
           /\ error' = IF w.error = "none" THEN error ELSE w.error
           /\ pc' = IF w.error = "none" THEN "done" ELSE "failed"
    /\ UNCHANGED <<inputs, calls, produced, template, ccds, message, spool, held, opens,
                   exits, pos, cur, stalled, frame, leave, total_time, waits,
                   mccds, nframe, n, nsel>>

Next ==
    \/ ResolveReject
    \/ ConstructList
    \/ ConstructRdata
    \/ SpoolerBase_enter
    \/ HcamListSpool_next
    \/ RdataFrame
    \/ RdataNone
    \/ RdataStop
    \/ RdataFail
    \/ Stall
    \/ RtGiveUp
    \/ RtWait
    \/ RtNoneFault
    \/ RtPlot
    \/ RtPlotRaise
    \/ AvGiveUp
    \/ AvTryAgain
    \/ AvAppend
    \/ AvAppendList
    \/ DirectBody
    \/ HcamListSpool_exit
    \/ Rdata_exit
    \/ Finish
    \/ AvCheckFrames
    \/ AvTemplate
    \/ AvCollect
    \/ AvValidCheck
    \/ AvMedian
    \/ AvWrite

Spec == Init /\ [][Next]_vars

\* every step the program can take is eventually taken
FairSpec == Spec /\ WF_vars(Next)

\* ------------------------------------------- the reduction on every stack
\* the frames first, first+1, ... of a run with any contents, none to
\* MaxFrames of them
Stacks ==
    UNION { { [i \in 1..k |-> RunFrame(i, cs[i])] : cs \in [1..k -> Contents] } :
            k \in 0..MaxFrames }

\* averun as its 'with' block leaves it: the frames of some stack stored,
\* the loop left at 'last', at the end of the run or on a give-up
ReduceInit ==
    /\ script = "averun"
    /\ leave \in {"last", "exhausted", "giveup"}
    /\ source = (IF leave = "giveup" THEN "us" ELSE "ul")
    /\ inst = SourceArgs(source)[1]
    /\ flist = SourceArgs(source)[2]
    /\ server = SourceArgs(source)[3]
    /\ resource = "run005"
    /\ flt = FALSE
    /\ profit = FALSE
    /\ bias \in {NoBias} \cup Biases
    /\ clobber \in BOOLEAN
    /\ first = 1
    /\ mccds \in Stacks
    /\ leave = "last" => Len(mccds) >= 1
    /\ last = (IF leave = "last" THEN Len(mccds) ELSE Len(mccds) + 1)
    /\ twait = 1
    /\ tmax = 0
    /\ exists = TRUE
    /\ rinst = "ULTRACAM"
    /\ lines = <<>>
    /\ pars = NotCalled
    /\ dsrc = NotResolved
    /\ pc = "after"
    /\ error = "none"
    /\ spool = Call.spool
    /\ held = FALSE
    /\ opens = 1
    /\ exits = 1
    /\ pos = 0
    /\ cur = first + Len(mccds)
    /\ stalled = (leave = "giveup")
    /\ frame = (IF leave = "giveup" \/ Len(mccds) = 0 THEN None
                ELSE mccds[Len(mccds)])
    /\ total_time = 0
    /\ waits = 0
    /\ nframe = last
    /\ n = 0
    /\ nsel = 0
    /\ produced = mccds
    /\ template = None
    /\ ccds = NoLists
    /\ outfile \in {NoFile, OldFile}
    /\ message = <<>>

ReduceNext ==
    \/ AvCheckFrames
    \/ AvTemplate
    \/ AvCollect
    \/ AvValidCheck
    \/ AvMedian
    \/ AvWrite

ReduceSpec == ReduceInit /\ [][ReduceNext]_vars

\* ------------------------------------------- the entry points, called once
\* what the scripts' own steps change
body == <<pc, error, spool, held, opens, exits, pos, cur, stalled, frame,
          leave, total_time, waits, mccds, nframe, n, nsel, produced, post>>

\* any caller before its call, over any run header and any file list
CallInit ==
    /\ DirectInputs \/ RtplotInputs \/ AverunInputs
    /\ exists \in BOOLEAN
    /\ rinst \in (IF script = "direct" /\ inst = "ULTRA" /\ exists /\ ~flist
                  THEN RheadInstruments ELSE {"ULTRACAM"})
    /\ lines \in (IF flist THEN FileLists ELSE { <<>> })
    /\ pars = NotCalled
    /\ dsrc = NotResolved
    /\ pc = "start"
    /\ error = "none"
    /\ spool = NoSpool
    /\ held = FALSE
    /\ opens = 0
    /\ exits = 0
    /\ pos = 0
    /\ cur = first
    /\ stalled = FALSE
    /\ frame = None
    /\ leave = "none"
    /\ total_time = 0
    /\ waits = 0
    /\ mccds = <<>>
    /\ nframe = first
    /\ n = 0
    /\ nsel = 0
    /\ produced = <<>>
    /\ template = None
    /\ ccds = NoLists
    /\ outfile = NoFile
    /\ message = <<>>

\* averun, line 144: hcam.data_source(source, run, first)
AverunCall ==
    /\ script = "averun"
    /\ dsrc = NotResolved
    /\ dsrc' = data_source_call(<<source, resource, first>>)
    /\ UNCHANGED <<inputs, pars, body>>

\* rtplot, line 396: hcam.data_source(instrument, run, flist, server, first)
RtplotCall ==
    /\ script = "rtplot"
    /\ dsrc = NotResolved
    /\ dsrc' = data_source_call(<<inst, resource, flist, server, first>>)
    /\ UNCHANGED <<inputs, pars, body>>

\* data_source(inst, resource, flist, server, first, flt)
DirectCall ==
    /\ script = "direct"
    /\ dsrc = NotResolved
    /\ dsrc' = data_source_call(<<inst, resource, flist, server, first, flt>>)
    /\ UNCHANGED <<inputs, pars, body>>

\* get_ccd_pars(inst, resource, flist)
GetCcdPars ==
    /\ script = "direct"
    /\ pars = NotCalled
    /\ pars' = get_ccd_pars(inst, resource, flist)
    /\ UNCHANGED <<inputs, dsrc, body>>

CallNext ==
    \/ AverunCall
    \/ RtplotCall
    \/ DirectCall
    \/ GetCcdPars

CallSpec == CallInit /\ [][CallNext]_vars

\* ------------------------------------- a list spool driven call by call
\* the calls of __next__ a caller makes on one spool
MaxCalls == 4

\* a caller that has built a HcamListSpool on a list that opens, and goes on
\* to call its __next__ and its __exit__ itself, in any order
DriveInit ==
    /\ DirectInputs
    /\ inst = "HIPER" /\ flist /\ ~server /\ ~flt
    /\ resource = "files.lis"
    /\ exists = TRUE
    /\ rinst = "ULTRACAM"
    /\ lines \in FileLists
    /\ pars = NotCalled
    /\ dsrc = NotResolved
    /\ pc = "constructed"
    /\ error = "none"
    /\ spool = Call.spool
    /\ held = TRUE
    /\ opens = 1
    /\ exits = 0
    /\ pos = 0
    /\ cur = first
    /\ stalled = FALSE
    /\ frame = None
    /\ leave = "none"
    /\ total_time = 0
    /\ waits = 0
    /\ mccds = <<>>
    /\ nframe = first
    /\ n = 0
    /\ nsel = 0
    /\ produced = <<>>
    /\ template = None
    /\ ccds = NoLists
    /\ outfile = NoFile
    /\ message = <<>>

\* HcamListSpool.__next__ with the list read again from its top once its
\* end has been met
NextCall_Rewind ==
    /\ spool.kind = "HcamListSpool"
    /\ n < MaxCalls
    /\ n' = n + 1
    /\ IF ~held
       THEN /\ pc' = "raised"
            /\ error' = "ValueError"
            /\ UNCHANGED <<pos, leave>>
       ELSE IF DataLinesAhead # {}
       THEN /\ pos' = Min(DataLinesAhead)
            /\ pc' = "returned"
            /\ error' = "none"
            /\ leave' = leave
       ELSE /\ pos' = 0
            /\ pc' = "StopIteration"
            /\ error' = "none"
            /\ leave' = "exhausted"
    /\ UNCHANGED <<inputs, calls, post, produced, spool, held, opens, exits, cur, stalled,
                   frame, total_time, waits, mccds, nframe, nsel>>

\* a call of HcamListSpool.__next__: 'for fname in self._iter' on a closed
\* file raises; on an open one it reads on from where the last call stopped,
\* returns (None) at the first line that is not a comment, and raises
\* StopIteration when the lines run out, as they do again on every later call
NextCall ==
    /\ spool.kind = "HcamListSpool"
    /\ n < MaxCalls
    /\ n' = n + 1
    /\ IF ~held
       THEN /\ pc' = "raised"
            /\ error' = "ValueError"
            /\ UNCHANGED <<pos, leave>>
       ELSE IF DataLinesAhead # {}
       THEN /\ pos' = Min(DataLinesAhead)
            /\ pc' = "returned"
            /\ error' = "none"
            /\ leave' = leave
       ELSE /\ pos' = Len(lines)
            /\ pc' = "StopIteration"
            /\ error' = "none"
            /\ leave' = "exhausted"
    /\ UNCHANGED <<inputs, calls, post, produced, spool, held, opens, exits, cur, stalled,
                   frame, total_time, waits, mccds, nframe, nsel>>

\* a call of HcamListSpool.__exit__: self._iter.close()
ExitCall ==
    /\ spool.kind = "HcamListSpool"
    /\ exits = 0
    /\ held' = FALSE
    /\ exits' = exits + 1
    /\ pc' = "exited"
    /\ UNCHANGED <<inputs, calls, post, produced, error, spool, opens, pos, cur, stalled,
                   frame, leave, total_time, waits, mccds, nframe, n, nsel>>

DriveNext ==
    \/ NextCall
    \/ ExitCall

DriveSpec == DriveInit /\ [][DriveNext]_vars

\* ================================================================ claims
Scoped == spool # NoSpool

PastWith == pc \in {"after", "done", "failed", "frames_read", "collect",
                  "check", "median", "write"}

Stopped == pc \in {"done", "failed"}

\* C1: whichever spool variant the scripts iterate and however the 'with'
\* block is left (loop exhausted, break at 'last', break on give-up,
\* exception in the body), the spool's __exit__ has run exactly once when the
\* block is behind and the resource is not held then or later.
C1_ReleasedExactlyOnce ==
    /\ exits <= 1
    /\ (exits = 1 => ~held)
    /\ (Scoped /\ PastWith => exits = 1 /\ ~held)

C1_Witness ==
    /\ script = "rtplot"
    /\ spool.kind = "HcamListSpool"
    /\ leave = "exception"
    /\ pc = "failed"
    /\ opens = 1
    /\ exits = 1
    /\ ~held

\* a read of a server source has just returned None to the polling loop
Sentinel ==
    /\ pc = "got"
    /\ script \in {"rtplot", "averun"}
    /\ spool.kind = "UcamServSpool"
    /\ frame = None

\* C2: on a None from a server source the loop either gives up (when
\* total_time + twait > tmax: the loop is left, no error raised, nothing
\* stored) or sleeps twait, adds twait to total_time and reads again; it
\* takes no other step.
C2_SentinelStep ==
    [][ Sentinel /\ pc' # pc =>
          IF total_time + twait > tmax
          THEN /\ pc' = "leaving"
               /\ leave' = "giveup"
               /\ error' = "none"
               /\ total_time' = total_time
               /\ mccds' = mccds
          ELSE /\ pc' = "loop"
               /\ total_time' = total_time + twait
               /\ error' = "none"
               /\ mccds' = mccds
      ]_vars

C2_Witness ==
    /\ script = "rtplot"
    /\ pc = "loop"
    /\ twait = 2
    /\ tmax = 3
    /\ total_time = 2
    /\ waits = 1
    /\ cur = first

\* C3: when the loop gives up, the sleeps taken since the last frame are the
\* largest k with k * twait <= tmax; with twait = 1 and tmax = 3 that is 3
\* sleeps, a total wait of 3, and the give-up on the 4th None.
C3_WaitsBeforeGiveUp ==
    leave = "giveup" =>
        /\ waits * twait <= tmax
        /\ (waits + 1) * twait > tmax
        /\ total_time = waits * twait
        /\ (twait = 1 /\ tmax = 3 => waits = 3 /\ total_time = 3)

C3_Witness ==
    /\ script = "rtplot"
    /\ leave = "giveup"
    /\ twait = 1
    /\ tmax = 3
    /\ waits = 3
    /\ total_time = 3
    /\ cur = first

\* C4: the step that handles a real frame leaves total_time at 0, whatever
\* it was before, so the waits after it are counted from 0.
C4_FrameResetsWait ==
    [][ /\ pc = "got"
        /\ script \in {"rtplot", "averun"}
        /\ frame # None
        /\ pc' # pc
        => total_time' = 0 /\ waits' = 0
      ]_vars

\* rtplot has read one None, waited, then a frame: the time waited is back at 0
C4_Witness ==
    /\ script = "rtplot"
    /\ server
    /\ twait > 0
    /\ pc = "loop"
    /\ n = 2
    /\ cur = first + 1
    /\ total_time = 0

C5_BoundedWaitPositive ==
    /\ [](script = "rtplot" /\ server => total_time <= tmax)
    /\ [](script = "rtplot" /\ stalled /\ twait > 0 => <>Stopped)

\* C6: each value the file-list spool hands out is the frame read from the
\* file named by the line just consumed, a line that does not start with '#'.
C6_ListYieldsFrames ==
    spool.kind = "HcamListSpool" /\ pc = "got" =>
        /\ pos \in 1..Len(lines)
        /\ ~startswith(lines[pos], "#")
        /\ frame = rhcam(lines[pos])

\* C7 as claimed, for the file-list spool: between data_source's return and
\* __enter__ no handle is held and none has been opened.
C7_CreatedEmpty ==
    pc = "constructed" /\ spool.kind = "HcamListSpool" => ~held /\ opens = 0

\* C7 amended: the file-list spool data_source returns already holds its open
\* list file (the constructor opened it), and __enter__ opens nothing for any
\* variant.
C7_HeldFromConstruction ==
    /\ [](pc = "constructed" /\ spool.kind = "HcamListSpool" => held /\ opens = 1)
    /\ [][pc = "constructed" => held' = held /\ opens' = opens]_vars

C7_Witness ==
    /\ pc = "loop"
    /\ spool.kind = "HcamListSpool"
    /\ held
    /\ opens = 1
    /\ pos = 0

\* the argument combinations data_source refuses
Refused ==
    \/ inst \notin {"ULTRA", "HIPER"}
    \/ inst = "ULTRA" /\ flist
    \/ inst = "HIPER" /\ ~flist /\ server

ValidationErrors == {"NotImplementedError", "ValueError"}

\* C8: a call of data_source with a refused combination ends in its error with
\* no spool constructed and nothing opened, and whenever the call ended in
\* such an error nothing was constructed or opened.
C8_FailFast ==
    /\ (Refused /\ pc # "start" =>
            pc = "failed" /\ error \in ValidationErrors)
    /\ (error \in ValidationErrors =>
            spool = NoSpool /\ ~held /\ opens = 0 /\ exits = 0)

C8_Witness ==
    /\ pc = "failed"
    /\ inst = "OTHER"
    /\ error = "ValueError"
    /\ exists
    /\ spool = NoSpool
    /\ opens = 0

\* C9 as claimed: every call with server true for HIPER is refused, with or
\* without flist, and constructs no spool.
C9_ServerHiperRefused ==
    inst = "HIPER" /\ server /\ exists /\ pc # "start" =>
        error = "NotImplementedError" /\ spool = NoSpool

\* C9 amended: for HIPER with server true the call is refused when flist is
\* false; when flist is true the server flag is not looked at and the
\* file-list spool is constructed.
C9_ServerHiperRefusedUnlessList ==
    inst = "HIPER" /\ server /\ pc # "start" =>
        IF flist
        THEN /\ error \notin ValidationErrors
             /\ (exists => spool = HcamListSpool(resource))
        ELSE /\ pc = "failed"
             /\ error = "NotImplementedError"
             /\ spool = NoSpool
             /\ opens = 0

C9_Witness ==
    /\ inst = "HIPER"
    /\ server
    /\ ~flist
    /\ exists
    /\ pc = "failed"
    /\ error = "NotImplementedError"

\* C10: with flist true the call's outcome is the one data_source gives with
\* the server flag flipped, for every inst, resource, first and flt.
C10_ServerIgnoredForLists ==
    /\ data_source(inst, resource, TRUE, TRUE, first, flt)
         = data_source(inst, resource, TRUE, FALSE, first, flt)
    /\ (flist /\ pc = "constructed" =>
            spool = data_source(inst, resource, TRUE, ~server, first, flt).spool)
    /\ (flist /\ error \in ValidationErrors =>
            error = data_source(inst, resource, TRUE, ~server, first, flt).error)

C10_Witness ==
    /\ flist
    /\ server
    /\ inst = "HIPER"
    /\ pc = "constructed"
    /\ spool.kind = "HcamListSpool"

\* the call was refused with error e: nothing constructed
RefusedWith(e) == pc = "failed" /\ error = e /\ spool = NoSpool

\* the call chose spool s: it is the spool built, unless its constructor
\* could not open the resource
Chose(s) ==
    /\ error \notin ValidationErrors
    /\ (exists => spool = s)
    /\ (~exists => spool = NoSpool /\ pc = "failed")

\* C11: once data_source has been called its outcome is fixed by (inst,
\* flist, server): an inst outside {ULTRA, HIPER} is refused whatever flist
\* and server are; ULTRA with flist is refused; ULTRA without flist gives the
\* server spool if server, else the ULTRACAM disk spool; HIPER with flist
\* gives the file-list spool; HIPER without flist or server gives the HiPERCAM
\* disk spool (and HIPER with server and no flist is refused).
C11_Dispatch ==
    pc # "start" =>
        IF inst \notin {"ULTRA", "HIPER"} THEN RefusedWith("ValueError")
        ELSE IF inst = "ULTRA" THEN
            IF flist THEN RefusedWith("NotImplementedError")
            ELSE IF server THEN Chose(UcamServSpool(resource, first, flt))
            ELSE Chose(UcamDiskSpool(resource, first, flt))
        ELSE
            IF flist THEN Chose(HcamListSpool(resource))
            ELSE IF server THEN RefusedWith("NotImplementedError")
            ELSE Chose(HcamDiskSpool(resource, first, flt))

C11_Witness ==
    /\ script = "direct"
    /\ inst = "ULTRA"
    /\ ~flist
    /\ server
    /\ pc = "constructed"
    /\ spool = UcamServSpool(resource, first, flt)

\* nothing has been written to the output path
NotWritten == outfile \in {NoFile, OldFile}

\* averun's acquisition loop has ended without a frame stored
EndedEmpty ==
    /\ script = "averun"
    /\ leave \in {"exhausted", "giveup"}
    /\ Len(mccds) = 0
    /\ pc \notin {"leaving", "after"}

\* C12: if averun's acquisition loop ends with no frame stored (the spool
\* exhausted at once, or a give-up before any frame), averun fails with the
\* 'no frames read' error, and nothing is written to the output path: a file
\* there stays as it was, and none is created.
C12_NoFramesNoOutput ==
    EndedEmpty =>
        /\ pc = "failed"
        /\ error = "HipercamError"
        /\ message = <<"no frames read">>
        /\ template = None
        /\ NotWritten

C12_Witness ==
    /\ EndedEmpty
    /\ leave = "giveup"
    /\ pc = "failed"
    /\ message = <<"no frames read">>
    /\ outfile = OldFile
    /\ clobber

\* the labels whose CCD has is_data() false in every stored frame
AllInvalid ==
    { c \in CNams : \A i \in 1..Len(mccds) : ~mccds[i].ccd[c].ok }

\* the first of them in the template's order
FirstInvalid ==
    CNamSeq[Min({ k \in 1..Len(CNamSeq) : CNamSeq[k] \in AllInvalid })]

\* C13: once averun has its template and has gone through the stored frames,
\* if some CCD label has is_data() false in every stored frame then averun
\* has failed with the HipercamError that names such a CCD (the first in the
\* template's order), no median has been put into the template and nothing
\* has been written; medians are computed only when every CCD has a frame.
C13_NoValidFrames ==
    /\ (template # None /\ pc \notin {"collect", "check"} /\ AllInvalid # {}) =>
           /\ pc = "failed"
           /\ error = "HipercamError"
           /\ message = <<"found no valid frames for CCD", FirstInvalid>>
           /\ template = produced[Len(produced)]
           /\ NotWritten
    /\ pc \in {"median", "write", "done"} => AllInvalid = {}

C13_Witness ==
    /\ pc = "failed"
    /\ Len(mccds) = 3
    /\ AllInvalid = {"2"}
    /\ message = <<"found no valid frames for CCD", "2">>
    /\ outfile = OldFile
    /\ clobber

\* the stored frames have been gone through
Gathered ==
    \/ pc \in {"check", "median", "write", "done"}
    \/ pc = "failed" /\ template # None

\* C14: for every CCD label c the frames that go into c's median are exactly
\* the stored frames whose CCD c has is_data(), each once, in the order they
\* were stored: a CCD blanked in frame i is left out of its own list for that
\* frame only (CCD '2' blanked in frame 2 of 3: '2' combines frames 1 and 3,
\* '1' combines 1, 2 and 3).
C14_CombinationSets ==
    Gathered =>
        \A c \in CNams :
            /\ \A k \in 1..Len(ccds[c]) : ccds[c][k] \in 1..Len(produced)
            /\ \A k, l \in 1..Len(ccds[c]) : k < l => ccds[c][k] < ccds[c][l]
            /\ { ccds[c][k] : k \in 1..Len(ccds[c]) }
                   = { i \in 1..Len(produced) : produced[i].ccd[c].ok }

C14_Witness ==
    /\ pc = "done"
    /\ Len(produced) = 3
    /\ ccds["2"] = <<1, 3>>
    /\ ccds["1"] = <<1, 2, 3>>
    /\ ~produced[2].ccd["2"].ok

\* averun is past 'template = mccd.copy()' with frames stored
PastTemplate ==
    /\ script = "averun"
    /\ Len(mccds) >= 1
    /\ \/ pc \in {"collect", "check", "median", "write", "done"}
       \/ pc = "failed" /\ leave \in {"last", "exhausted", "giveup"}

C15_TemplateIsLastRead ==
    PastTemplate /\ leave # "giveup" =>
        /\ template.kind = "Frame"
        /\ template.nframe = produced[Len(produced)].nframe

\* averun with a run is in its acquisition loop or has just left it
Accumulating ==
    /\ script = "averun"
    /\ server_or_local
    /\ last >= first
    /\ pc \in {"loop", "got", "leaving", "after", "frames_read"}

\* the frames the reader has handed out and the loop body has dealt with
Handled ==
    IF pc = "got" /\ frame # None
    THEN SubSeq(produced, 1, Len(produced) - 1)
    ELSE produced

\* C16: all through averun's acquisition loop (last >= first) mccds holds
\* exactly the frames the spool has produced so far, None never, in the order
\* they were produced, frames first, first+1, ...; it never holds more than
\* last - first + 1 of them, and once it holds that many the loop has been
\* left at 'last': nothing more is read.
C16_BufferIsProduced ==
    Accumulating =>
        /\ mccds = Handled
        /\ \A i \in 1..Len(mccds) :
               mccds[i].kind = "Frame" /\ mccds[i].nframe = first + i - 1
        /\ Len(mccds) <= last - first + 1
        /\ Len(mccds) = last - first + 1 =>
               pc \notin {"loop", "got"} /\ leave = "last"

C16_Witness ==
    /\ Accumulating
    /\ source = "us"
    /\ last = first + 1
    /\ Len(mccds) = 2
    /\ mccds[1].ccd # mccds[2].ccd
    /\ pc = "leaving"
    /\ leave = "last"

\* how many values of a stack lie below v, and how many do not lie above it
Below(s, v) == Cardinality({ i \in 1..Len(s) : s[i] < v })

UpTo(s, v) == Cardinality({ i \in 1..Len(s) : s[i] <= v })

\* the k-th smallest value of a stack, by counting
KthSmallest(s, k) ==
    CHOOSE v \in { s[i] : i \in 1..Len(s) } : Below(s, v) < k /\ k <= UpTo(s, v)

\* m is the median of the stack s: its middle value, or the mean of its two
\* middle values
IsMedian(m, s) ==
    IF Len(s) % 2 = 1
    THEN m = KthSmallest(s, (Len(s) + 1) \div 2)
    ELSE 2 * m = KthSmallest(s, Len(s) \div 2) + KthSmallest(s, Len(s) \div 2 + 1)

\* every CCD of every frame handed out has is_data()
AllValid == \A i \in 1..Len(produced) : \A c \in CNams : produced[i].ccd[c].ok

\* the pixel of CCD c in the frames handed out, less b, over the frames in
\* which CCD c has is_data()
ValidVals(c, b) ==
    LET idx == SelectSeq([i \in 1..Len(produced) |-> i],
                         LAMBDA i : produced[i].ccd[c].ok)
    IN  [k \in 1..Len(idx) |-> produced[idx[k]].ccd[c].data - b]

\* C17: N >= 1 frames stored, every CCD of every one valid, no bias: every
\* pixel of the output is the median of the N pixels of the frames at its
\* place (the mean of the two middle values if N is even), and that is what
\* is written.
C17_MedianOutput ==
    (pc \in {"write", "done"} /\ ~bias.given /\ AllValid) =>
        /\ \A c \in CNams :
               IsMedian(template.ccd[c].data,
                        [i \in 1..Len(produced) |-> produced[i].ccd[c].data])
        /\ pc = "done" => outfile = template

C17_Witness ==
    /\ pc = "done"
    /\ ~bias.given
    /\ AllValid
    /\ Len(produced) = 2
    /\ produced[1].ccd["1"].data = 8
    /\ produced[2].ccd["1"].data = 2
    /\ outfile.ccd["1"].data = 5

\* C18: with a bias B the output is, for every CCD and pixel, what the
\* combination gives on the frames F_i - B without a bias, namely the median
\* of the values F_i - B; and that is the median of the F_i, less B.
C18_BiasIsLinear ==
    (pc \in {"write", "done"} /\ bias.given) =>
        \A c \in CNams :
            /\ IsMedian(template.ccd[c].data, ValidVals(c, bias.data[c]))
            /\ IsMedian(template.ccd[c].data + bias.data[c], ValidVals(c, 0))

\* without a bias the combination gives the median of the values it is given
C18_NoBiasIsMedian ==
    (pc \in {"write", "done"} /\ ~bias.given) =>
        \A c \in CNams : IsMedian(template.ccd[c].data, ValidVals(c, 0))

C18_Witness ==
    /\ pc = "done"
    /\ bias.given
    /\ Len(produced) = 3
    /\ ~produced[2].ccd["2"].ok
    /\ produced[1].ccd["2"].data = 4
    /\ produced[3].ccd["2"].data = 10
    /\ outfile.ccd["2"].data = 1
    /\ produced[1].ccd["1"].data = 12
    /\ produced[2].ccd["1"].data = 2
    /\ produced[3].ccd["1"].data = 8
    /\ outfile.ccd["1"].data = 6

\* C20: template.write(outfile, clobber) with a file already at the output
\* path: if clobber is false the write fails and the file is as it was; if
\* clobber is true the file is replaced by the combined frame.
C20_Clobber ==
    [][(pc = "write" /\ outfile # NoFile) =>
          IF clobber
          THEN pc' = "done" /\ outfile' = template /\ outfile' # outfile
          ELSE pc' = "failed" /\ error' = "OSError" /\ outfile' = outfile]_vars

C20_Witness ==
    /\ pc = "failed"
    /\ error = "OSError"
    /\ ~clobber
    /\ outfile = OldFile
    /\ template.kind = "Frame"

\* C19: a failure of a read that is not the None of a server leaves the loop
\* and the 'with' block at once: from then on nothing more is read or stored,
\* no template is taken, nothing is combined or written, and the one step
\* left, the spool's __exit__, ends the script in failure.
C19_ReadFailureIsFatal ==
    [][error = "ReadError" =>
          /\ pc' = "failed"
          /\ error' = "ReadError"
          /\ cur' = cur
          /\ mccds' = mccds
          /\ produced' = produced
          /\ template' = None
          /\ ccds' = NoLists
          /\ outfile' = outfile]_vars

C19_Witness ==
    /\ script = "averun"
    /\ error = "ReadError"
    /\ pc = "failed"
    /\ Len(mccds) = 2
    /\ last = first + 2
    /\ exits = 1
    /\ outfile = OldFile
    /\ clobber

ReduceStep == template' # template \/ ccds' # ccds

WriteStep == outfile' # outfile

ReleaseStep == exits' # exits

ReadStep == pc = "loop" /\ pc' # pc

Plotted == Len(Handled)

C23_SelectInFirstIteration ==
    [][nsel' # nsel =>
          /\ script = "rtplot" /\ profit
          /\ n = 0 /\ nsel = 0 /\ nsel' = 1
          /\ Len(produced) = 1]_vars

\* C24: each data-source option of averun (hs, hl, us, ul, hf) is resolved
\* by data_source as averun calls it: the call gives the spool variant of
\* that source, or the configuration error data_source defines for it.
C24_SourcesResolved ==
    (script = "averun" /\ dsrc # NotResolved) =>
        /\ dsrc = Call
        /\ dsrc.error \in {"none", "NotImplementedError"}

\* what the code does: averun gives data_source three of its six required
\* arguments, and the call fails before any instrument is looked at
C24_CallIsTypeError ==
    (script = "averun" /\ dsrc # NotResolved) => dsrc = Raise("TypeError")

C25_ListStopsAtFirst ==
    (script = "averun" /\ source = "hf" /\ Scoped /\ PastWith) =>
        IF NameLines = {}
        THEN leave = "exhausted" /\ mccds = <<>>
        ELSE leave = "exception" /\ error = "NameError" /\ mccds = <<None>>

\* get_ccd_pars has been called on a file list of HiPERCAM files that opens
ListParsCalled ==
    script = "direct" /\ inst = "HIPER" /\ flist /\ exists /\ pars # NotCalled

\* C26: for a file list get_ccd_pars gives the geometry of the file that the
\* first line not starting with '#' names, whatever the later lines are; it
\* builds and reads no spool; with no such line in the list it raises.
C26_FirstNameOnly ==
    ListParsCalled =>
        /\ spool = NoSpool /\ opens = 0 /\ produced = <<>>
        /\ IF \A j \in 1..Len(lines) : startswith(lines[j], "#")
           THEN pars.kind = "raise" /\ pars.error = "ValueError"
           ELSE \E j \in 1..Len(lines) :
                    /\ ~startswith(lines[j], "#")
                    /\ \A k \in 1..(j - 1) : startswith(lines[k], "#")
                    /\ pars = Pars("none", "info", <<>>, lines[j])

C26_Witness ==
    /\ ListParsCalled
    /\ Len(lines) = 3
    /\ startswith(lines[1], "#")
    /\ ~startswith(lines[2], "#")
    /\ ~startswith(lines[3], "#")
    /\ lines[3] # lines[2]
    /\ pars.file = lines[2]

\* get_ccd_pars has been called on a run (no file list) of an instrument it
\* supports
RunParsCalled ==
    /\ script = "direct" /\ ~flist /\ pars # NotCalled
    /\ \/ inst = "HIPER"
       \/ inst = "ULTRA" /\ exists /\ rinst \in {"ULTRACAM", "ULTRASPEC"}

\* the CCD labels of the instrument, in order
CCDLabels ==
    IF inst = "HIPER" THEN <<"1", "2", "3", "4", "5">>
    ELSE IF rinst = "ULTRACAM" THEN <<"r", "g", "b">>
    ELSE <<"1">>

\* p is an ordered mapping with one (width, height) pair for each label
MapsLabels(p, labels) ==
    /\ p.kind = "OrderedDict"
    /\ Len(p.items) = Len(labels)
    /\ \A i \in 1..Len(labels) :
           p.items[i][1] = labels[i] /\ Len(p.items[i][2]) = 2

\* C27: for a run of a supported instrument get_ccd_pars returns an ordered
\* mapping with one (maxWidth, maxHeight) entry per CCD label: r, g, b for
\* ULTRACAM, the one label '1' for ULTRASPEC, '1' to '5' for HiPERCAM.
C27_OneEntryPerCCD == RunParsCalled => MapsLabels(pars, CCDLabels)

\* what the code does: the mapping as stated for ULTRACAM and HiPERCAM, and
\* a ValueError out of the mapping's constructor for ULTRASPEC
C27_UltraspecRaises ==
    RunParsCalled =>
        IF inst = "ULTRA" /\ rinst = "ULTRASPEC"
        THEN pars = ParsRaise("ValueError")
        ELSE MapsLabels(pars, CCDLabels)

\* C30: for an instrument that is neither 'ULTRA' nor 'HIPER', whatever the
\* other arguments, get_ccd_pars raises nothing and returns None, while
\* data_source raises ValueError and builds no spool.
C30_NoneWhereResolverRaises ==
    (script = "direct" /\ inst \notin {"ULTRA", "HIPER"}) =>
        /\ pars # NotCalled =>
               pars.error = "none" /\ pars.kind = "None" /\ pars.items = <<>>
        /\ dsrc # NotResolved =>
               dsrc.error = "ValueError" /\ dsrc.spool = NoSpool

C30_Witness ==
    /\ script = "direct"
    /\ inst = "OTHER"
    /\ pars.kind = "None"
    /\ dsrc.error = "ValueError"

\* an iteration of averun's loop ends in 'try again'
TryAgainStep ==
    /\ script = "averun" /\ pc = "got" /\ frame = None
    /\ pc' = "loop"

\* C29: an iteration of averun's loop that ends in 'try again' leaves mccds
\* and nframe as they were; nframe goes up, by one, only in a step that
\* appends a frame that is not None, so that all through the loop nframe is
\* first plus the number of frames stored and None never counts toward 'last'.
C29_TryAgainKeepsCount ==
    [][(script = "averun" /\ server_or_local) =>
          /\ TryAgainStep => mccds' = mccds /\ nframe' = nframe
          /\ nframe' # nframe =>
                 /\ nframe' = nframe + 1
                 /\ frame # None
                 /\ mccds' = Append(mccds, frame)
          /\ pc' \in {"loop", "got"} => nframe' = first + Len(mccds')]_vars

C29_Witness ==
    /\ script = "averun"
    /\ pc = "loop"
    /\ waits >= 2
    /\ Len(mccds) = 1
    /\ nframe = first + 1
    /\ last = nframe

\* a call of __next__ is made
NextStep == n' = n + 1

\* C28: once a call of a list spool's __next__ has signalled the end of the
\* sequence, and likewise once its __exit__ has run, every later call of
\* __next__ signals the end again or raises: it returns nothing, no frame and
\* no other value, and reads no further line.
C28_EndIsAbsorbing ==
    [][(NextStep /\ (leave = "exhausted" \/ exits >= 1)) =>
          /\ pc' \in {"StopIteration", "raised"}
          /\ pos' = pos
          /\ exits >= 1 => pc' = "raised"]_vars

C28_Witness ==
    /\ NameLines # {}
    /\ leave = "exhausted"
    /\ exits = 1
    /\ n = MaxCalls
    /\ pc = "raised"

====
